---------------------------- MODULE Spec2Model ----------------------------
(***************************************************************************)
(* GoldBook trading journal (src/app.py): the trade store filled by the    *)
(* MT5 sync endpoint and the analytics report computed by /api/stats.      *)
(*                                                                         *)
(* Representation.                                                         *)
(*   - A Python / SQLite value is a tagged record: Null, Text(s), Real(x), *)
(*     Integer(i).  A string is the sequence of its characters, each a     *)
(*     one-character TLA+ string, so that slicing (s[:10]) is SubSeq and   *)
(*     strptime is a scanner over the characters.                          *)
(*   - Money is fixed point: an integer number of thousandths of the       *)
(*     account currency (100.00 is 100000).  round(x, 2) rounds to a       *)
(*     multiple of 10 thousandths.                                         *)
(***************************************************************************)
EXTENDS Integers, Sequences, FiniteSets, TLC

VARIABLES
    accounts,          \* table accounts, in id order
    trades,            \* table trades, in id order
    equity_snapshots,  \* table equity_snapshots, in id order
    session,           \* the browser's session cookie (a dict)
    rows,              \* api_stats: the trade rows it fetched (line 217)
    response           \* the response to the last request

vars == <<accounts, trades, equity_snapshots, session, rows, response>>

-----------------------------------------------------------------------------
(* Values *)

Null == [type |-> "null"]

Text(s) == [type |-> "text", v |-> s]

Real(x) == [type |-> "real", v |-> x]

Integer(i) == [type |-> "integer", v |-> i]

IsNull(x) == x.type = "null"

\* Python truthiness of a value: None, "" and 0 are false.
Truthy(x) ==
    CASE x.type = "null" -> FALSE
      [] x.type = "text" -> Len(x.v) > 0
      [] OTHER -> x.v # 0

\* dict.get(key, default) on a JSON object.
Get(t, key, default) == IF key \in DOMAIN t THEN t[key] ELSE default

\* d[k] = v on a Python dict (a function; a new key extends the domain).
DictSet(d, k, val) ==
    [x \in (DOMAIN d) \cup {k} |-> IF x = k THEN val ELSE d[x]]

\* d.get(k, default) on a Python dict.
DictGet(d, k, default) == IF k \in DOMAIN d THEN d[k] ELSE default

EmptyDict == [x \in {} |-> 0]

-----------------------------------------------------------------------------
(* Characters and strings *)

\* The characters the inputs use, in ASCII order.
Alphabet ==
    << " ", "-", "0", "1", "2", "3", "4", "5", "6", "7", "8", "9", ":",
       "A", "D", "E", "R", "S", "T", "U", "X",
       "a", "b", "e", "g", "r" >>

Digits == {"0", "1", "2", "3", "4", "5", "6", "7", "8", "9"}

\* The rank of each character: its place in Alphabet.
OrdOf ==
    [c \in { Alphabet[i] : i \in 1..Len(Alphabet) } |->
        CHOOSE i \in 1..Len(Alphabet) : Alphabet[i] = c]

Ord(c) == OrdOf[c]

DigitOf == [c \in Digits |-> OrdOf[c] - OrdOf["0"]]

DigitVal(c) == DigitOf[c]

DigitChar(d) == Alphabet[Ord("0") + d]

Min(a, b) == IF a <= b THEN a ELSE b

Max(a, b) == IF a >= b THEN a ELSE b

\* s[:n]
Slice(s, n) == SubSeq(s, 1, Min(n, Len(s)))

\* memcmp order of two strings (SQLite's BINARY collation): decided at the
\* first position k where they differ, or by the shorter being a prefix.
RECURSIVE StrLessFrom(_, _, _)
StrLessFrom(a, b, k) ==
    IF k > Len(b) THEN FALSE
    ELSE IF k > Len(a) THEN TRUE
    ELSE IF a[k] = b[k] THEN StrLessFrom(a, b, k + 1)
    ELSE Ord(a[k]) < Ord(b[k])

StrLess(a, b) == StrLessFrom(a, b, 1)

\* Variant of Str: two digits always ("07"), as "%02d" would write it.
StrPadded(n) == << DigitChar(n \div 10), DigitChar(n % 10) >>

\* str(n) for a small non-negative integer.
Str(n) ==
    IF n < 10 THEN << DigitChar(n) >>
    ELSE << DigitChar(n \div 10), DigitChar(n % 10) >>

-----------------------------------------------------------------------------
(* datetime.strptime(s, "%Y-%m-%d %H:%M:%S") *)

\* Length of the run of digits of s that starts at position i.
RECURSIVE DigitRun(_, _)
DigitRun(s, i) ==
    IF i >= 1 /\ i <= Len(s) /\ s[i] \in Digits THEN 1 + DigitRun(s, i + 1) ELSE 0

\* Length of the run of blanks of s that starts at position i.
RECURSIVE SpaceRun(_, _)
SpaceRun(s, i) ==
    IF i >= 1 /\ i <= Len(s) /\ s[i] = " " THEN 1 + SpaceRun(s, i + 1) ELSE 0

\* The decimal number written at s[i .. i+n-1], n in 1..4.
RECURSIVE Number(_, _, _)
Number(s, i, n) ==
    IF n = 0 THEN 0
    ELSE 10 * Number(s, i, n - 1) + DigitVal(s[i + n - 1])

CharAt(s, i) == IF i >= 1 /\ i <= Len(s) THEN s[i] ELSE ""

IsLeap(y) == (y % 4 = 0) /\ ((y % 100 # 0) \/ (y % 400 = 0))

DaysInMonth(y, m) ==
    IF m = 2 THEN (IF IsLeap(y) THEN 29 ELSE 28)
    ELSE IF m \in {4, 6, 9, 11} THEN 30 ELSE 31

RECURSIVE DaysBeforeMonth(_, _)
DaysBeforeMonth(y, m) ==
    IF m = 1 THEN 0 ELSE DaysBeforeMonth(y, m - 1) + DaysInMonth(y, m - 1)

NoTime == [ok |-> FALSE]

\* A numeric field of one or two digits at position p, with its value in
\* lo..hi; the regex alternatives take the two-digit form first and the
\* element that follows is never a digit, so the field is the whole run.
FieldOk(s, p, lo, hi) ==
    /\ DigitRun(s, p) \in {1, 2}
    /\ Number(s, p, DigitRun(s, p)) \in lo..hi

Strptime(s) ==
    IF ~ (DigitRun(s, 1) = 4 /\ CharAt(s, 5) = "-") THEN NoTime
    ELSE IF ~ (FieldOk(s, 6, 1, 12) /\ CharAt(s, 6 + DigitRun(s, 6)) = "-")
    THEN NoTime
    ELSE
    LET year  == Number(s, 1, 4)
        mlen  == DigitRun(s, 6)
        month == Number(s, 6, mlen)
        dpos  == 6 + mlen + 1
        \* %d also accepts a blank followed by one digit 1..9
        pad   == IF CharAt(s, dpos) = " " THEN 1 ELSE 0
        dlen  == DigitRun(s, dpos + pad)
    IN
    IF ~ ( /\ FieldOk(s, dpos + pad, 1, 31)
           /\ (pad = 1 => dlen = 1) ) THEN NoTime
    ELSE
    LET day   == Number(s, dpos + pad, dlen)
        wpos  == dpos + pad + dlen
        wlen  == SpaceRun(s, wpos)
        hpos  == wpos + wlen
    IN
    IF ~ (wlen >= 1 /\ FieldOk(s, hpos, 0, 23)
          /\ CharAt(s, hpos + DigitRun(s, hpos)) = ":") THEN NoTime
    ELSE
    LET hlen  == DigitRun(s, hpos)
        hour  == Number(s, hpos, hlen)
        mipos == hpos + hlen + 1
    IN
    IF ~ (FieldOk(s, mipos, 0, 59)
          /\ CharAt(s, mipos + DigitRun(s, mipos)) = ":") THEN NoTime
    ELSE
    LET milen == DigitRun(s, mipos)
        minute == Number(s, mipos, milen)
        spos  == mipos + milen + 1
    IN
    \* %S matches 0..61 and datetime() then refuses 60 and 61; anything left
    \* after the seconds is "unconverted data remains".
    IF ~ (FieldOk(s, spos, 0, 59) /\ spos + DigitRun(s, spos) - 1 = Len(s))
    THEN NoTime
    ELSE IF year < 1 \/ day > DaysInMonth(year, month) THEN NoTime
    ELSE [ok |-> TRUE, year |-> year, month |-> month, day |-> day,
          hour |-> hour, minute |-> minute,
          second |-> Number(s, spos, DigitRun(s, spos))]

\* date.toordinal(): days since 0001-01-01, which is day 1.
ToOrdinal(d) ==
    LET y == d.year - 1
    IN  365 * y + (y \div 4) - (y \div 100) + (y \div 400)
        + DaysBeforeMonth(d.year, d.month) + d.day

\* datetime.weekday(): Monday is 0.
Weekday(d) == (ToOrdinal(d) + 6) % 7

\* (d2 - d1).total_seconds()
TotalSeconds(d1, d2) ==
    (ToOrdinal(d2) - ToOrdinal(d1)) * 86400
    + (d2.hour - d1.hour) * 3600 + (d2.minute - d1.minute) * 60
    + (d2.second - d1.second)

\* int(x / 60): truncation toward zero.
TruncMinutes(secs) == IF secs >= 0 THEN secs \div 60 ELSE - ((- secs) \div 60)

-----------------------------------------------------------------------------
(* Inputs: the strings, trades and requests the clients send *)

XAUUSD == << "X", "A", "U", "U", "S", "D" >>

EURUSD == << "E", "U", "R", "U", "S", "D" >>

Unknown == << "U", "n", "k", "n", "o", "w", "n" >>

\* "2024-01-05 10:00:00", a Friday
TFriOpen ==
    << "2", "0", "2", "4", "-", "0", "1", "-", "0", "5", " ",
       "1", "0", ":", "0", "0", ":", "0", "0" >>

\* "2024-01-05 15:00:00"
TFriClose ==
    << "2", "0", "2", "4", "-", "0", "1", "-", "0", "5", " ",
       "1", "5", ":", "0", "0", ":", "0", "0" >>

\* "2024-01-05T10:00:00": ISO form, not the form strptime is given
TIso ==
    << "2", "0", "2", "4", "-", "0", "1", "-", "0", "5", "T",
       "1", "0", ":", "0", "0", ":", "0", "0" >>

\* "2024-01-08 23:59:59", a Monday
TMonOpen ==
    << "2", "0", "2", "4", "-", "0", "1", "-", "0", "8", " ",
       "2", "3", ":", "5", "9", ":", "5", "9" >>

\* "2024-02-01 09:30:00"
TFebClose ==
    << "2", "0", "2", "4", "-", "0", "2", "-", "0", "1", " ",
       "0", "9", ":", "3", "0", ":", "0", "0" >>

\* "2024-1-7 9:05:03": no zero padding, a Sunday
TSunOpen ==
    << "2", "0", "2", "4", "-", "1", "-", "7", " ",
       "9", ":", "0", "5", ":", "0", "3" >>

\* "2024-02-30 10:00:00": matches the format, is no date
TNoDate ==
    << "2", "0", "2", "4", "-", "0", "2", "-", "3", "0", " ",
       "1", "0", ":", "0", "0", ":", "0", "0" >>

TGarbage == << "g", "a", "r", "b", "a", "g", "e" >>

\* "2024-01-0d 15:00:00" for d in 1..9
TDay(d) ==
    << "2", "0", "2", "4", "-", "0", "1", "-", "0", DigitChar(d), " ",
       "1", "5", ":", "0", "0", ":", "0", "0" >>

API_KEY == "goldbook_api_key"

ApiKeys == {API_KEY, "wrong_key"}

AccountNumbers == {"50001", "50002"}

Passwords == {"secret"}

\* The JSON trade objects an MT5 client posts.  A key that is absent from
\* the object is absent from the record; an explicit null is Null.
SyncTrades ==
    { [ticket |-> Integer(1), pair |-> Text(XAUUSD),
       open_time |-> Text(TFriOpen), close_time |-> Text(TFriClose),
       profit |-> Real(100000)],
      [ticket |-> Integer(1), pair |-> Text(EURUSD),
       open_time |-> Text(TMonOpen), close_time |-> Text(TFebClose),
       profit |-> Real(0)],
      [pair |-> Null, open_time |-> Text(TGarbage),
       close_time |-> Text(TFriClose), profit |-> Real(-12346)],
      [ticket |-> Null, pair |-> Text(<<>>),
       open_time |-> Text(TIso), close_time |-> Null,
       profit |-> Null] }

-----------------------------------------------------------------------------
(* Arithmetic of the statistics: money in thousandths *)

RECURSIVE Sum(_)
Sum(xs) == IF xs = <<>> THEN 0 ELSE xs[1] + Sum(Tail(xs))

Abs(x) == IF x < 0 THEN - x ELSE x

\* round(x, 2): the nearest multiple of 0.01.  A value exactly half way
\* (x.xx5) goes to the even neighbour; the inputs are even numbers of
\* thousandths, so no sum of them is ever half way.
Round2(x) ==
    LET q == x \div 10
        r == x % 10
    IN  IF r < 5 THEN 10 * q
        ELSE IF r > 5 THEN 10 * (q + 1)
        ELSE IF q % 2 = 0 THEN 10 * q ELSE 10 * (q + 1)

\* round(a / b, 2) for a >= 0, b > 0, in thousandths.
Round2Div(a, b) ==
    LET q == (100 * a) \div b
        r == (100 * a) % b
    IN  IF 2 * r < b THEN 10 * q
        ELSE IF 2 * r > b THEN 10 * (q + 1)
        ELSE IF q % 2 = 0 THEN 10 * q ELSE 10 * (q + 1)

-----------------------------------------------------------------------------
(* compute_stats *)

\* profits = [t["profit"] for t in trades]
Profits(ts) == [i \in 1..Len(ts) |-> ts[i]["profit"].v]

IsWin(p) == p > 0

IsLoss(p) == p < 0

\* Variant of StreakScan: a loss leaves the current win streak standing and
\* a win leaves the current loss streak standing.
RECURSIVE StreakScanNoReset(_, _)
StreakScanNoReset(profits, n) ==
    IF n = 0
    THEN [max_consec_wins |-> 0, max_consec_losses |-> 0, cur_w |-> 0, cur_l |-> 0]
    ELSE LET s == StreakScanNoReset(profits, n - 1)
         IN  IF profits[n] > 0
             THEN [s EXCEPT !.cur_w = s.cur_w + 1,
                            !.max_consec_wins = Max(s.max_consec_wins, s.cur_w + 1)]
             ELSE [s EXCEPT !.cur_l = s.cur_l + 1,
                            !.max_consec_losses = Max(s.max_consec_losses, s.cur_l + 1)]

\* The loop of lines 103-109: the streak counters after the first n profits.
RECURSIVE StreakScan(_, _)
StreakScan(profits, n) ==
    IF n = 0
    THEN [max_consec_wins |-> 0, max_consec_losses |-> 0, cur_w |-> 0, cur_l |-> 0]
    ELSE LET s == StreakScan(profits, n - 1)
         IN  IF profits[n] > 0
             THEN [s EXCEPT !.cur_w = s.cur_w + 1, !.cur_l = 0,
                            !.max_consec_wins = Max(s.max_consec_wins, s.cur_w + 1)]
             ELSE [s EXCEPT !.cur_l = s.cur_l + 1, !.cur_w = 0,
                            !.max_consec_losses = Max(s.max_consec_losses, s.cur_l + 1)]

\* Variant of DrawdownScan: the peak starts at the first running total
\* instead of at 0.
RECURSIVE DrawdownScanPeakFirst(_, _)
DrawdownScanPeakFirst(profits, n) ==
    IF n = 0
    THEN [peak |-> 0, max_dd |-> 0, running |-> 0]
    ELSE LET s       == DrawdownScanPeakFirst(profits, n - 1)
             running == s.running + profits[n]
             peak    == IF n = 1 \/ running > s.peak THEN running ELSE s.peak
             dd      == peak - running
         IN  [peak |-> peak, running |-> running,
              max_dd |-> IF dd > s.max_dd THEN dd ELSE s.max_dd]

\* The loop of lines 113-117: peak, running total and largest drawdown
\* after the first n profits.
RECURSIVE DrawdownScan(_, _)
DrawdownScan(profits, n) ==
    IF n = 0
    THEN [peak |-> 0, max_dd |-> 0, running |-> 0]
    ELSE LET s       == DrawdownScan(profits, n - 1)
             running == s.running + profits[n]
             peak    == IF running > s.peak THEN running ELSE s.peak
             dd      == peak - running
         IN  [peak |-> peak, running |-> running,
              max_dd |-> IF dd > s.max_dd THEN dd ELSE s.max_dd]

\* Variant of ProfitFactor: the ratio cut to 2 decimals, not rounded.
ProfitFactorTruncated(gross_profit, gross_loss) ==
    IF gross_loss > 0 THEN 10 * ((100 * gross_profit) \div gross_loss) ELSE 0

ProfitFactor(gross_profit, gross_loss) ==
    IF gross_loss > 0 THEN Round2Div(gross_profit, gross_loss) ELSE 0

\* The summary; win_rate, avg_win, avg_loss, expectancy and sharpe_ratio are
\* left out (no property here reads them).
compute_stats(ts) ==
    IF ts = <<>> THEN EmptyDict
    ELSE
    LET profits      == Profits(ts)
        wins         == SelectSeq(profits, IsWin)
        losses       == SelectSeq(profits, IsLoss)
        total        == Len(profits)
        gross_profit == Sum(wins)
        gross_loss   == Abs(Sum(losses))
        streaks      == StreakScan(profits, total)
        drawdown     == DrawdownScan(profits, total)
    IN  [total_trades      |-> total,
         win_count         |-> Len(wins),
         loss_count        |-> Len(losses),
         profit_factor     |-> ProfitFactor(gross_profit, gross_loss),
         max_consec_wins   |-> streaks.max_consec_wins,
         max_consec_losses |-> streaks.max_consec_losses,
         total_profit      |-> Round2(Sum(profits)),
         max_drawdown      |-> Round2(drawdown.max_dd),
         gross_profit      |-> Round2(gross_profit),
         gross_loss        |-> Round2(gross_loss)]

\* p > 0 raises TypeError when a profit is None.
StatsRaises(ts) == \E i \in 1..Len(ts) : IsNull(ts[i]["profit"])

-----------------------------------------------------------------------------
(* api_stats: the bucket mappings *)

\* Variant of Calendar: a day's bucket holds the last profit of the day,
\* not the running sum.
RECURSIVE CalendarOverwrite(_, _)
CalendarOverwrite(ts, n) ==
    IF n = 0 THEN EmptyDict
    ELSE LET cal == CalendarOverwrite(ts, n - 1)
             t   == ts[n]
         IN  IF Truthy(t["close_time"]) /\ Slice(t["close_time"].v, 10) # <<>>
             THEN DictSet(cal, Slice(t["close_time"].v, 10), Round2(t["profit"].v))
             ELSE cal

\* P&L calendar, lines 229-234, after the first n trades.
RECURSIVE Calendar(_, _)
Calendar(ts, n) ==
    IF n = 0 THEN EmptyDict
    ELSE LET cal == Calendar(ts, n - 1)
             t   == ts[n]
         IN  IF Truthy(t["close_time"]) /\ Slice(t["close_time"].v, 10) # <<>>
             THEN LET day == Slice(t["close_time"].v, 10)
                  IN  DictSet(cal, day, Round2(DictGet(cal, day, 0) + t["profit"].v))
             ELSE cal

\* Monthly P&L, lines 265-270.
RECURSIVE Monthly(_, _)
Monthly(ts, n) ==
    IF n = 0 THEN EmptyDict
    ELSE LET monthly == Monthly(ts, n - 1)
             t       == ts[n]
         IN  IF Truthy(t["close_time"])
             THEN LET mon == Slice(t["close_time"].v, 7)
                  IN  DictSet(monthly, mon, Round2(DictGet(monthly, mon, 0) + t["profit"].v))
             ELSE monthly

\* hours[h] = round(hours[h] + profit, 2) inside try/except: a key that is
\* not in the mapping raises KeyError, which the except swallows.
BucketAdd(d, k, profit) ==
    IF k \in DOMAIN d THEN DictSet(d, k, Round2(d[k] + profit)) ELSE d

HourKey(dt) == Str(dt.hour)

\* Variant of Hours: a trade whose open_time does not parse is booked
\* under hour 0.
RECURSIVE HoursDefaultZero(_, _)
HoursDefaultZero(ts, n) ==
    IF n = 0 THEN [k \in {Str(h) : h \in 0..23} |-> 0]
    ELSE LET hours == HoursDefaultZero(ts, n - 1)
             t     == ts[n]
         IN  IF Truthy(t["open_time"])
             THEN LET dt == Strptime(Slice(t["open_time"].v, 19))
                  IN  IF dt.ok THEN BucketAdd(hours, HourKey(dt), t["profit"].v)
                      ELSE BucketAdd(hours, Str(0), t["profit"].v)
             ELSE hours

\* Hours heatmap, lines 236-243.
RECURSIVE Hours(_, _)
Hours(ts, n) ==
    IF n = 0 THEN [k \in {Str(h) : h \in 0..23} |-> 0]
    ELSE LET hours == Hours(ts, n - 1)
             t     == ts[n]
         IN  IF Truthy(t["open_time"])
             THEN LET dt == Strptime(Slice(t["open_time"].v, 19))
                  IN  IF dt.ok THEN BucketAdd(hours, HourKey(dt), t["profit"].v)
                      ELSE hours
             ELSE hours

day_names == << "Mon", "Tue", "Wed", "Thu", "Fri", "Sat", "Sun" >>

DayKey(dt) == day_names[Weekday(dt) + 1]

\* Day of week, lines 245-253.
RECURSIVE Days(_, _)
Days(ts, n) ==
    IF n = 0 THEN [k \in {"Mon", "Tue", "Wed", "Thu", "Fri", "Sat", "Sun"} |-> 0]
    ELSE LET days == Days(ts, n - 1)
             t    == ts[n]
         IN  IF Truthy(t["open_time"])
             THEN LET dt == Strptime(Slice(t["open_time"].v, 19))
                  IN  IF dt.ok THEN BucketAdd(days, DayKey(dt), t["profit"].v)
                      ELSE days
             ELSE days

\* t["pair"] or "Unknown"
PairKey(t) == IF Truthy(t["pair"]) THEN t["pair"].v ELSE Unknown

\* if t["profit"] > 0: wins += 1, else: losses += 1
PairCount(e, profit) ==
    IF profit > 0 THEN [e EXCEPT !.wins = e.wins + 1]
    ELSE [e EXCEPT !.losses = e.losses + 1]

\* By pair, lines 255-263.
RECURSIVE Pairs(_, _)
Pairs(ts, n) ==
    IF n = 0 THEN EmptyDict
    ELSE LET pairs == Pairs(ts, n - 1)
             t     == ts[n]
             p     == PairKey(t)
             e     == DictGet(pairs, p, [wins |-> 0, losses |-> 0, profit |-> 0])
             c     == PairCount(e, t["profit"].v)
         IN  DictSet(pairs, p, [c EXCEPT !.profit = Round2(c.profit + t["profit"].v)])

\* Equity curve, lines 225-227.
EquityCurve(snaps) ==
    [i \in 1..Len(snaps) |->
        [time |-> snaps[i].snapshot_time, balance |-> snaps[i].balance,
         equity |-> snaps[i].equity]]

\* The body of the JSON response, lines 272-281.
Report(ts, snaps) ==
    [stats        |-> compute_stats(ts),
     equity_curve |-> EquityCurve(snaps),
     calendar     |-> Calendar(ts, Len(ts)),
     hours        |-> Hours(ts, Len(ts)),
     days         |-> Days(ts, Len(ts)),
     pairs        |-> Pairs(ts, Len(ts)),
     monthly      |-> Monthly(ts, Len(ts)),
     trade_count  |-> Len(ts)]

-----------------------------------------------------------------------------
(* The store *)

MaxSyncs == 2

MaxBatch == 2

\* hashlib.sha256(pwd): a one-way tag of the password.
hash_password(pwd) == << "sha256", pwd >>

\* SELECT * FROM accounts WHERE account_number = ?  (a set: empty or one row)
get_account(account_number) ==
    { accounts[i] : i \in { j \in 1..Len(accounts) :
                              accounts[j].account_number = account_number } }

\* REAL column affinity: an integer is stored as a float, NULL stays NULL.
RealAffinity(x) == IF x.type = "integer" THEN Real(1000 * x.v) ELSE x

\* UNIQUE(account_id, ticket): SQLite holds NULLs to be distinct from each
\* other, so a row with a NULL ticket never conflicts.
Conflicts(tbl, account_id, ticket) ==
    \E i \in 1..Len(tbl) :
        /\ tbl[i].account_id = account_id
        /\ ~ IsNull(ticket)
        /\ ~ IsNull(tbl[i].ticket)
        /\ tbl[i].ticket = ticket

\* INSERT OR IGNORE INTO trades ...: AUTOINCREMENT gives the next id.
InsertOrIgnore(tbl, r) ==
    IF Conflicts(tbl, r.account_id, r.ticket) THEN tbl
    ELSE Append(tbl, [id |-> Len(tbl) + 1] @@ r)

\* duration_minutes, lines 313-321.
Duration(open_t, close_t) ==
    IF Truthy(open_t) /\ Truthy(close_t)
    THEN LET dt1 == Strptime(Slice(open_t.v, 19))
             dt2 == Strptime(Slice(close_t.v, 19))
         IN  IF dt1.ok /\ dt2.ok THEN TruncMinutes(TotalSeconds(dt1, dt2)) ELSE 0
    ELSE 0

\* The row one posted trade is stored as, lines 313-333.
TradeRow(account_id, t) ==
    LET open_t  == Get(t, "open_time", Text(<<>>))
        close_t == Get(t, "close_time", Text(<<>>))
    IN  [account_id       |-> account_id,
         ticket           |-> Get(t, "ticket", Null),
         pair             |-> Get(t, "pair", Null),
         open_time        |-> open_t,
         close_time       |-> close_t,
         profit           |-> RealAffinity(Get(t, "profit", Integer(0))),
         duration_minutes |-> Duration(open_t, close_t)]

\* for t in trades_in: ... INSERT OR IGNORE, after the first n trades.
RECURSIVE InsertAll(_, _, _, _)
InsertAll(tbl, account_id, trades_in, n) ==
    IF n = 0 THEN tbl
    ELSE InsertOrIgnore(InsertAll(tbl, account_id, trades_in, n - 1),
                        TradeRow(account_id, trades_in[n]))

\* ORDER BY close_time: NULL sorts before every text, texts by memcmp.
SqlLess(a, b) ==
    IF IsNull(a) THEN ~ IsNull(b)
    ELSE IF IsNull(b) THEN FALSE
    ELSE StrLess(a.v, b.v)

\* SELECT * FROM trades WHERE account_id = ? ORDER BY close_time DESC: every
\* order of the rows in S that the ORDER BY allows (rows with equal
\* close_time come in no specified order).
RECURSIVE OrderByCloseTimeDesc(_, _)
OrderByCloseTimeDesc(tbl, S) ==
    IF S = {} THEN { <<>> }
    ELSE UNION { { << tbl[i] >> \o rest : rest \in OrderByCloseTimeDesc(tbl, S \ {i}) } :
                 i \in { k \in S : \A j \in S :
                           ~ SqlLess(tbl[k].close_time, tbl[j].close_time) } }

AccountRows(tbl, account_id) ==
    { i \in 1..Len(tbl) : tbl[i].account_id = account_id }

-----------------------------------------------------------------------------
(* The request handlers *)

Payloads ==
    [account_number : AccountNumbers,
     trades  : UNION { [1..k -> SyncTrades] : k \in 0..MaxBatch },
     balance : {Real(1000000)},
     equity  : {Real(1000000)}]

Init ==
    /\ accounts = <<>>
    /\ trades = <<>>
    /\ equity_snapshots = <<>>
    /\ session = EmptyDict
    /\ rows = <<>>
    /\ response = [route |-> "", status |-> 0, body |-> <<>>]

\* POST /api/register, lines 346-362.
api_register(key, account_number, password) ==
    /\ rows' = <<>>
    /\ UNCHANGED <<trades, equity_snapshots, session>>
    /\ IF key # API_KEY
       THEN /\ response' = [route |-> "/api/register", status |-> 403,
                            body |-> "invalid key"]
            /\ UNCHANGED accounts
       ELSE IF get_account(account_number) # {}
       THEN \* UNIQUE account_number: sqlite3.IntegrityError
            /\ response' = [route |-> "/api/register", status |-> 200,
                            body |-> "already exists"]
            /\ UNCHANGED accounts
       ELSE /\ accounts' = Append(accounts,
                              [id |-> Len(accounts) + 1,
                               account_number |-> account_number,
                               password_hash |-> hash_password(password),
                               broker |-> "MT5"])
            /\ response' = [route |-> "/api/register", status |-> 200,
                            body |-> "registered"]

\* POST /login, lines 144-157.
login(account_number, password) ==
    /\ rows' = <<>>
    /\ UNCHANGED <<accounts, trades, equity_snapshots>>
    /\ IF \E acc \in get_account(account_number) :
              acc.password_hash = hash_password(password)
       THEN LET acc == CHOOSE a \in get_account(account_number) : TRUE
            IN  /\ session' = [account_id |-> acc.id,
                               account_number |-> acc.account_number,
                               broker |-> acc.broker]
                /\ response' = [route |-> "/login", status |-> 302,
                                body |-> "dashboard"]
       ELSE /\ response' = [route |-> "/login", status |-> 200,
                            body |-> "Invalid account number or password."]
            /\ UNCHANGED session

\* GET /logout, lines 183-186.
logout ==
    /\ session' = EmptyDict
    /\ rows' = <<>>
    /\ response' = [route |-> "/logout", status |-> 302, body |-> "login"]
    /\ UNCHANGED <<accounts, trades, equity_snapshots>>

\* POST /api/trades/sync, lines 294-344.
sync_trades(key, payload) ==
    /\ Len(equity_snapshots) < MaxSyncs
    /\ rows' = <<>>
    /\ UNCHANGED <<accounts, session>>
    /\ IF key # API_KEY
       THEN /\ response' = [route |-> "/api/trades/sync", status |-> 403,
                            body |-> "invalid key"]
            /\ UNCHANGED <<trades, equity_snapshots>>
       ELSE IF get_account(payload.account_number) = {}
       THEN /\ response' = [route |-> "/api/trades/sync", status |-> 404,
                            body |-> "account not found"]
            /\ UNCHANGED <<trades, equity_snapshots>>
       ELSE LET acc == CHOOSE a \in get_account(payload.account_number) : TRUE
            IN  /\ trades' = InsertAll(trades, acc.id, payload.trades,
                                       Len(payload.trades))
                /\ equity_snapshots' =
                       Append(equity_snapshots,
                              [id |-> Len(equity_snapshots) + 1,
                               account_id |-> acc.id,
                               balance |-> payload.balance,
                               equity |-> payload.equity,
                               \* CURRENT_TIMESTAMP: a clock that never goes back
                               snapshot_time |-> Len(equity_snapshots) + 1])
                /\ response' = [route |-> "/api/trades/sync", status |-> 200,
                                body |-> [status |-> "ok",
                                          inserted |-> Len(payload.trades)]]

\* SELECT * FROM equity_snapshots WHERE account_id = ? ORDER BY snapshot_time
Snaps(account_id) ==
    SelectSeq(equity_snapshots, LAMBDA sn : sn.account_id = account_id)

\* GET /api/stats, lines 212-281.  An exception that leaves the handler is
\* answered by Flask with status 500.
api_stats ==
    /\ UNCHANGED <<accounts, trades, equity_snapshots, session>>
    /\ IF ~ ("account_id" \in DOMAIN session)
       THEN /\ rows' = <<>>
            /\ response' = [route |-> "/api/stats", status |-> 401,
                            body |-> "unauthorized"]
       ELSE \E fetched \in OrderByCloseTimeDesc(trades,
                               AccountRows(trades, session["account_id"])) :
                /\ rows' = fetched
                /\ response' =
                       IF StatsRaises(fetched)
                       THEN [route |-> "/api/stats", status |-> 500,
                             body |-> "TypeError"]
                       ELSE [route |-> "/api/stats", status |-> 200,
                             body |-> Report(fetched,
                                             Snaps(session["account_id"]))]

Next ==
    \/ \E key \in ApiKeys, a \in AccountNumbers, pw \in Passwords :
           api_register(key, a, pw)
    \/ \E a \in AccountNumbers, pw \in Passwords \cup {"guess"} : login(a, pw)
    \/ logout
    \/ \E key \in ApiKeys, payload \in Payloads : sync_trades(key, payload)
    \/ api_stats

Spec == Init /\ [][Next]_vars

-----------------------------------------------------------------------------
(* The report over bounded trade histories                                 *)
(*                                                                         *)
(* One account is registered and logged in, and one sync has stored a      *)
(* history: any sequence of profits, the scenario of five trades, or any   *)
(* sequence of mixed trades.  Every request is then GET /api/stats.        *)

MaxProfits == 5

MaxMixed == 3

ProfitValues == {-50000, 0, 50000, 100000}

\* [100, -50, 50, -20, -10]
Scenario == << 100000, -50000, 50000, -20000, -10000 >>

\* A history that is given by its profits alone; the close times fall from
\* one trade to the next, so ORDER BY close_time DESC hands the engine the
\* profits in the order written.
ProfitHistory(ps) ==
    [i \in 1..Len(ps) |->
        [ticket |-> Integer(i), pair |-> Text(XAUUSD),
         open_time |-> Text(TFriOpen), close_time |-> Text(TDay(9 - i)),
         profit |-> Real(ps[i])]]

\* Trades with every kind of timestamp, pair and amount (whole and
\* fractional cents); the ticket is added by position.
MixedTrades ==
    { [pair |-> Text(XAUUSD), open_time |-> Text(TFriOpen),
       close_time |-> Text(TFriClose), profit |-> Real(30000)],
      [pair |-> Text(XAUUSD), open_time |-> Text(TGarbage),
       close_time |-> Text(TIso), profit |-> Real(-10000)],
      [pair |-> Text(EURUSD), open_time |-> Text(TMonOpen),
       close_time |-> Text(TFebClose), profit |-> Real(0)],
      [pair |-> Null, close_time |-> Text(TFriClose), profit |-> Real(12346)],
      [pair |-> Text(<<>>), open_time |-> Null, close_time |-> Null,
       profit |-> Real(-4)],
      [pair |-> Text(EURUSD), open_time |-> Text(TSunOpen),
       close_time |-> Text(TFebClose), profit |-> Real(338)],
      [pair |-> Text(EURUSD), open_time |-> Text(TNoDate),
       close_time |-> Text(TGarbage), profit |-> Real(-20000)] }

MixedHistory(ts) == [i \in 1..Len(ts) |-> [ticket |-> Integer(i)] @@ ts[i]]

InitStats ==
    /\ accounts = << [id |-> 1, account_number |-> "50001",
                      password_hash |-> hash_password("secret"),
                      broker |-> "MT5"] >>
    /\ \/ \E k \in 0..MaxProfits : \E ps \in [1..k -> ProfitValues] :
              trades = InsertAll(<<>>, 1, ProfitHistory(ps), k)
       \/ trades = InsertAll(<<>>, 1, ProfitHistory(Scenario), Len(Scenario))
       \/ \E k \in 1..MaxMixed : \E ts \in [1..k -> MixedTrades] :
              trades = InsertAll(<<>>, 1, MixedHistory(ts), k)
    /\ equity_snapshots = << [id |-> 1, account_id |-> 1,
                              balance |-> Real(1000000),
                              equity |-> Real(1000000),
                              snapshot_time |-> 1] >>
    /\ session = [account_id |-> 1, account_number |-> "50001", broker |-> "MT5"]
    /\ rows = <<>>
    /\ response = [route |-> "/login", status |-> 302, body |-> "dashboard"]

NextStats == api_stats

SpecStats == InitStats /\ [][NextStats]_vars

-----------------------------------------------------------------------------
(* Properties                                                              *)
(*                                                                         *)
(* In a state whose response is a report, rows is the trade sequence that  *)
(* api_stats handed to the engine, in the order it was supplied.           *)

IsReport == response.route = "/api/stats" /\ response.status = 200

stats == response.body.stats

Indices(ps, P(_)) == { i \in 1..Len(ps) : P(ps[i]) }

MaxOf(S) == CHOOSE x \in S : \A y \in S : y <= x

RECURSIVE TotalOver(_, _)
TotalOver(d, S) ==
    IF S = {} THEN 0
    ELSE LET k == CHOOSE x \in S : TRUE
         IN  d[k] + TotalOver(d, S \ {k})

\* sum(d.values())
DictTotal(d) == TotalOver(d, DOMAIN d)

WholeCents(ps) == \A i \in 1..Len(ps) : ps[i] % 10 = 0

RemoveAt(xs, i) == SubSeq(xs, 1, i - 1) \o SubSeq(xs, i + 1, Len(xs))

IsPositive(p) == p > 0

IsNotPositive(p) == p <= 0

\* C1: for every non-empty trade sequence the summary has
\* win_count + loss_count = total_trades, a trade being a win iff its profit
\* is > 0 and a loss iff its profit is <= 0 (a zero-profit trade is a loss).
C1_WinsAndLossesCoverAllTrades ==
    (IsReport /\ rows # <<>>) =>
        LET ps == Profits(rows)
        IN  /\ stats.win_count = Cardinality(Indices(ps, IsPositive))
            /\ stats.loss_count = Cardinality(Indices(ps, IsNotPositive))
            /\ stats.win_count + stats.loss_count = stats.total_trades

\* No two stored trades have the same (account_id, ticket).
NoDuplicateTicket ==
    \A i, j \in 1..Len(trades) :
        (i # j /\ trades[i].account_id = trades[j].account_id)
            => trades[i].ticket # trades[j].ticket

\* Every trade of the posted list already has its row in the account.
AlreadySynced(account_id, trades_in) ==
    \A k \in 1..Len(trades_in) :
        \E i \in 1..Len(trades) :
            trades[i] = [id |-> trades[i].id] @@ TradeRow(account_id, trades_in[k])

\* C2: after any sequence of sync_trades calls no two trade rows share
\* (account_id, ticket), and posting again trades that are already stored
\* leaves the stored trades as they are (no row added, none modified),
\* whatever the ticket of the trade, a missing or null one included.
C2_SyncIsIdempotent ==
    /\ [] NoDuplicateTicket
    /\ [][ \A payload \in Payloads :
             ( /\ sync_trades(API_KEY, payload)
               /\ \E acc \in get_account(payload.account_number) :
                      AlreadySynced(acc.id, payload.trades) )
                 => trades' = trades ]_vars

\* C3: an authenticated api_stats call always completes with a report,
\* whatever rows sync_trades has stored for the account.
C3_StatsNeverFails ==
    (response.route = "/api/stats" /\ "account_id" \in DOMAIN session)
        => response.status = 200

\* open_time is present and does not parse; close_time is present.
GarbageOpen(t) ==
    /\ Truthy(t.open_time)
    /\ ~ Strptime(Slice(t.open_time.v, 19)).ok
    /\ Truthy(t.close_time)

\* open_time is present and parses.
ParsedOpen(t) ==
    /\ Truthy(t.open_time)
    /\ Strptime(Slice(t.open_time.v, 19)).ok

HourKeys ==
    { <<"0">>, <<"1">>, <<"2">>, <<"3">>, <<"4">>, <<"5">>, <<"6">>, <<"7">>,
      <<"8">>, <<"9">>, <<"1", "0">>, <<"1", "1">>, <<"1", "2">>, <<"1", "3">>,
      <<"1", "4">>, <<"1", "5">>, <<"1", "6">>, <<"1", "7">>, <<"1", "8">>,
      <<"1", "9">>, <<"2", "0">>, <<"2", "1">>, <<"2", "2">>, <<"2", "3">> }

DayKeys == {"Mon", "Tue", "Wed", "Thu", "Fri", "Sat", "Sun"}

\* C4: in every report the hours mapping has exactly the 24 keys "0".."23"
\* and the days mapping exactly the 7 keys Mon..Sun, whatever the trades'
\* open_time values are; for the empty trade sequence every value is 0.
C4_HoursAndDaysKeys ==
    IsReport =>
        /\ DOMAIN response.body.hours = HourKeys
        /\ DOMAIN response.body.days = DayKeys
        /\ rows = <<>> =>
              /\ \A k \in HourKeys : response.body.hours[k] = 0
              /\ \A k \in DayKeys : response.body.days[k] = 0

\* A report over three trades: one whose open_time parses, one whose
\* open_time is present and does not parse, one without open_time.
C4_Witness ==
    /\ IsReport
    /\ Len(rows) = MaxMixed
    /\ \E k \in 1..Len(rows) : ~ Truthy(rows[k].open_time)
    /\ \E j \in 1..Len(rows) : GarbageOpen(rows[j])
    /\ \E i \in 1..Len(rows) : ParsedOpen(rows[i])

AllClosed(ts) == \A i \in 1..Len(ts) : Truthy(ts[i].close_time)

\* The three totals agree: exactly for whole cents, within 0.01 a trade
\* otherwise.
TotalsAgree(cal, monthly, total_profit, ps) ==
    LET tol == 10 * Len(ps)
    IN  /\ Abs(DictTotal(cal) - DictTotal(monthly)) <= tol
        /\ Abs(DictTotal(cal) - total_profit) <= tol
        /\ Abs(DictTotal(monthly) - total_profit) <= tol
        /\ WholeCents(ps) =>
              /\ DictTotal(cal) = total_profit
              /\ DictTotal(monthly) = total_profit

\* C5 as stated: for every trade sequence in which every trade has a
\* non-empty close_time, the calendar values, the monthly values and
\* stats.total_profit have the same sum (exactly for whole cents, within
\* 0.01 x trade_count otherwise).
C5_TotalsAgreeAlways ==
    (IsReport /\ AllClosed(rows)) =>
        /\ "total_profit" \in DOMAIN stats
        /\ TotalsAgree(response.body.calendar, response.body.monthly,
                       stats["total_profit"], Profits(rows))

\* C5, amended: the same for every NON-EMPTY trade sequence; for the empty
\* one the calendar and the monthly mapping are empty and the summary is
\* empty, with no total_profit to compare with.
C5_TotalsAgree ==
    (IsReport /\ AllClosed(rows)) =>
        IF rows = <<>>
        THEN /\ response.body.calendar = EmptyDict
             /\ response.body.monthly = EmptyDict
             /\ stats = EmptyDict
        ELSE TotalsAgree(response.body.calendar, response.body.monthly,
                         stats["total_profit"], Profits(rows))

\* A report over trades that all have a close_time, on two days, with an
\* amount that is not a whole number of cents.
C5_Witness ==
    /\ IsReport
    /\ AllClosed(rows)
    /\ Len(rows) >= 2
    /\ ~ WholeCents(Profits(rows))
    /\ Cardinality(DOMAIN response.body.calendar) >= 2

\* C6: a trade whose open_time is present but does not parse and whose
\* close_time is valid is counted in total_trades and trade_count, adds its
\* profit (rounded to cents, as every contribution is) to its calendar day
\* and its month, and leaves hours and days as they are without it.
C6_GarbageOpenTime ==
    IsReport =>
        \A i \in 1..Len(rows) :
            GarbageOpen(rows[i]) =>
                LET others == RemoveAt(rows, i)
                    n      == Len(others)
                    day    == Slice(rows[i].close_time.v, 10)
                    mon    == Slice(rows[i].close_time.v, 7)
                    p      == rows[i].profit.v
                    cents  == CHOOSE c \in { 10 * x : x \in ((p \div 10) - 1)..((p \div 10) + 1) } :
                                  2 * Abs(c - p) < 10
                IN  /\ stats.total_trades = n + 1
                    /\ response.body.trade_count = n + 1
                    /\ day \in DOMAIN response.body.calendar
                    /\ response.body.calendar[day]
                         = DictGet(Calendar(others, n), day, 0) + cents
                    /\ mon \in DOMAIN response.body.monthly
                    /\ response.body.monthly[mon]
                         = DictGet(Monthly(others, n), mon, 0) + cents
                    /\ response.body.hours = Hours(others, n)
                    /\ response.body.days = Days(others, n)

\* A report over a trade with an unparsable open_time next to a trade
\* whose open_time parses.
C6_Witness ==
    /\ IsReport
    /\ \E i \in 1..Len(rows) : GarbageOpen(rows[i]) /\ rows[i].profit.v # 0
    /\ \E j \in 1..Len(rows) : ParsedOpen(rows[j]) /\ rows[j].profit.v # 0

GrossProfit(ps) == Sum(SelectSeq(ps, IsPositive))

GrossLoss(ps) == - Sum(SelectSeq(ps, IsNotPositive))

\* C7 as stated: the reported profit_factor is gross_profit / gross_loss
\* when gross_loss > 0 and 0 when it is 0; for the scenario the reported
\* values are 150, 80 and 1.875.
C7_ProfitFactorIsTheRatio ==
    (IsReport /\ rows # <<>>) =>
        LET gp == GrossProfit(Profits(rows))
            gl == GrossLoss(Profits(rows))
        IN  /\ gl > 0 => stats.profit_factor * gl = 1000 * gp
            /\ gl = 0 => stats.profit_factor = 0
            /\ Profits(rows) = Scenario =>
                  /\ stats.gross_profit = 150000
                  /\ stats.gross_loss = 80000
                  /\ stats.profit_factor = 1875

\* C7, amended: the reported profit_factor is gross_profit / gross_loss
\* ROUNDED TO 2 DECIMALS when gross_loss > 0, and 0 when it is 0; for the
\* scenario the reported values are 150, 80 and 1.88.
C7_ProfitFactorRounded ==
    (IsReport /\ rows # <<>>) =>
        LET gp == GrossProfit(Profits(rows))
            gl == GrossLoss(Profits(rows))
        IN  /\ gl > 0 =>
                  /\ stats.profit_factor % 10 = 0
                  /\ 2 * Abs(stats.profit_factor * gl - 1000 * gp) <= 10 * gl
            /\ gl = 0 => stats.profit_factor = 0
            /\ Profits(rows) = Scenario =>
                  /\ stats.gross_profit = 150000
                  /\ stats.gross_loss = 80000
                  /\ stats.profit_factor = 1880

\* The report over the scenario [100, -50, 50, -20, -10].
C7_Witness == IsReport /\ Profits(rows) = Scenario

\* Length of the longest run of adjacent elements of ps that satisfy P.
LongestRun(ps, P(_)) ==
    MaxOf({0} \cup { j - i + 1 : <<i, j>> \in
                       { r \in (1..Len(ps)) \X (1..Len(ps)) :
                           /\ r[1] <= r[2]
                           /\ \A k \in r[1]..r[2] : P(ps[k]) } })

\* C8: over the trades in the order supplied, max_consec_wins is the length
\* of the longest run of adjacent trades with profit > 0 and
\* max_consec_losses that of the longest run with profit <= 0 (1 and 2 for
\* the scenario).
C8_Streaks ==
    (IsReport /\ rows # <<>>) =>
        LET ps == Profits(rows)
        IN  /\ stats.max_consec_wins = LongestRun(ps, IsPositive)
            /\ stats.max_consec_losses = LongestRun(ps, IsNotPositive)
            /\ ps = Scenario =>
                  /\ stats.max_consec_wins = 1
                  /\ stats.max_consec_losses = 2

\* A report over a history of full length that starts and ends with a
\* win and has a run of wins and a run of losses in it.
C8_Witness ==
    /\ IsReport
    /\ Len(rows) = MaxProfits
    /\ stats.max_consec_wins >= 2
    /\ stats.max_consec_losses >= 2
    /\ Profits(rows)[1] > 0
    /\ Profits(rows)[Len(rows)] > 0

\* Cumulative profit of the first k trades, and the largest cumulative
\* profit of any prefix up to k, the empty one (0) included.
Running(ps, k) == Sum(SubSeq(ps, 1, k))

Peak(ps, k) == MaxOf({ Running(ps, j) : j \in 0..k })

LargestDrawdown(ps) == MaxOf({ Peak(ps, k) - Running(ps, k) : k \in 1..Len(ps) })

NeverBelowPeak(ps) == \A k \in 1..Len(ps) : Running(ps, k) >= Peak(ps, k)

\* C9 as stated: max_drawdown is the largest peak - running over all
\* prefixes; it is >= 0, and 0 exactly when the cumulative profit never
\* falls below its running peak.
C9_DrawdownIsTheMaximum ==
    (IsReport /\ rows # <<>>) =>
        LET ps == Profits(rows)
        IN  /\ stats.max_drawdown = LargestDrawdown(ps)
            /\ stats.max_drawdown >= 0
            /\ stats.max_drawdown = 0 <=> NeverBelowPeak(ps)

\* C9, amended: max_drawdown is the largest peak - running over all
\* prefixes ROUNDED TO 2 DECIMALS; it is >= 0, it is 0 whenever the
\* cumulative profit never falls below its running peak, and for amounts in
\* whole cents it is that maximum itself and 0 only then.
C9_DrawdownRounded ==
    (IsReport /\ rows # <<>>) =>
        LET ps == Profits(rows)
        IN  /\ stats.max_drawdown % 10 = 0
            /\ 2 * Abs(stats.max_drawdown - LargestDrawdown(ps)) <= 10
            /\ stats.max_drawdown >= 0
            /\ NeverBelowPeak(ps) => stats.max_drawdown = 0
            /\ WholeCents(ps) =>
                  /\ stats.max_drawdown = LargestDrawdown(ps)
                  /\ stats.max_drawdown = 0 => NeverBelowPeak(ps)

\* A report with a positive drawdown after a peak above 0.
C9_Witness ==
    /\ IsReport
    /\ Len(rows) >= 3
    /\ stats.max_drawdown > 0
    /\ \E k \in 1..Len(rows) : Peak(Profits(rows), k) > 0
                                /\ Running(Profits(rows), k) < Peak(Profits(rows), k)

\* C10: the per-pair breakdown classifies as the summary does: over all
\* pairs entries the wins add up to stats.win_count, the losses to
\* stats.loss_count and wins + losses to trade_count, each trade being
\* counted under its pair, or under "Unknown" when the pair is null or empty.
C10_PairsAgreeWithStats ==
    (IsReport /\ rows # <<>>) =>
        LET pairs == response.body.pairs
            ps    == Profits(rows)
            Of(k) == { i \in 1..Len(rows) :
                         IF Truthy(rows[i].pair) THEN rows[i].pair.v = k
                         ELSE k = Unknown }
        IN  /\ DictTotal([k \in DOMAIN pairs |-> pairs[k].wins]) = stats.win_count
            /\ DictTotal([k \in DOMAIN pairs |-> pairs[k].losses]) = stats.loss_count
            /\ DictTotal([k \in DOMAIN pairs |-> pairs[k].wins + pairs[k].losses])
                  = response.body.trade_count
            /\ \A k \in DOMAIN pairs :
                  /\ pairs[k].wins = Cardinality({ i \in Of(k) : ps[i] > 0 })
                  /\ pairs[k].losses = Cardinality({ i \in Of(k) : ps[i] <= 0 })

=============================================================================
